---- MODULE Spec2Model ----
(***************************************************************************)
(* Brand-compliance audit pipeline: index_video_node (Extraction) followed *)
(* by audit_content_node (Judgment), driven START -> Indexer -> Auditor -> *)
(* END.  External collaborators (media indexer, vector store, language     *)
(* model) are modelled by their outcomes: each call either returns or      *)
(* raises.  Texts are sequences of lexical tokens.                         *)
(***************************************************************************)
EXTENDS Integers, Sequences, FiniteSets, TLC

VARIABLES state, pc, out, calls, scratch_exists, local_path, azure_video_id,
          response, content

vars == <<state, pc, out, calls, scratch_exists, local_path, azure_video_id,
          response, content>>

(* ---------------------------- bounds ----------------------------------- *)

\* longest model response, in tokens
MaxLen == 4
\* most members in a JSON object of a response
MaxMembers == 3

(* ------------------------- generic helpers ----------------------------- *)

SeqsUpTo(S, n) == UNION {[1..k -> S] : k \in 0..n}

\* Python's  x in d  /  d.get(k, default)
Has(d, k) == k \in DOMAIN d

Get(d, k, default) == IF k \in DOMAIN d THEN d[k] ELSE default

(* ------------------------------ texts ---------------------------------- *)

\* A text is a sequence of tokens.  A token is a fence marker (```), the
\* word json, a run of whitespace, a run of prose, or the text of one JSON
\* document.
NoDoc == [kind |-> "none", members |-> <<>>]

Fence == [t |-> "fence", d |-> NoDoc]
Tag   == [t |-> "tag", d |-> NoDoc]
Ws    == [t |-> "ws", d |-> NoDoc]
Txt   == [t |-> "txt", d |-> NoDoc]

DocTok(d) == [t |-> "doc", d |-> d]

\* member texts of a JSON object:  "key": value
Members == {"status:PASS", "status:FAIL", "status:WARN",
            "final_report:Clean", "compliance_results:[issue]"}

Issue == [category |-> "Claims", severity |-> "CRITICAL", description |-> "X"]

\* JSON documents a response may carry: an object (its members in any
\* order, a key possibly repeated with another value), an array, or a
\* document cut short (malformed)
Docs == {[kind |-> "object", members |-> m] :
            m \in {q \in SeqsUpTo(Members, MaxMembers) :
                      \A i, j \in 1..Len(q) : q[i] = q[j] => i = j}}
          \cup {[kind |-> "array", members |-> <<>>],
                [kind |-> "truncated", members |-> <<>>]}

LayoutTokens == {"fence", "tag", "ws", "txt", "doc"}

Fill(layout, d) ==
    [i \in 1..Len(layout) |->
        IF layout[i] = "doc" THEN DocTok(d) ELSE [t |-> layout[i], d |-> NoDoc]]

\* response.content values the language model may return: Fill(l, d) for
\* a layout l and a document d
Layouts == SeqsUpTo(LayoutTokens, MaxLen)

(* --------------------------- str.strip --------------------------------- *)

RECURSIVE lstrip(_)
lstrip(s) ==
    IF Len(s) = 0 THEN s
    ELSE IF Head(s).t = "ws" THEN lstrip(Tail(s)) ELSE s

RECURSIVE rstrip(_)
rstrip(s) ==
    IF Len(s) = 0 THEN s
    ELSE IF s[Len(s)].t = "ws" THEN rstrip(SubSeq(s, 1, Len(s) - 1)) ELSE s

strip(s) == rstrip(lstrip(s))

(* -------- re.search(r"```(?:json)?(.*?)```", content, re.DOTALL) -------- *)

NoMatch == [matched |-> FALSE, group1 |-> <<>>]

\* mutant: a greedy capture, up to the last fence marker
LazyUntilFence_Greedy(s, p, j) ==
    LET closing == {i \in j..Len(s) : s[i].t = "fence"}
    IN  IF closing = {} THEN [matched |-> FALSE, group1 |-> <<>>]
        ELSE [matched |-> TRUE,
              group1 |-> SubSeq(s, p, (CHOOSE i \in closing : \A k \in closing : k <= i) - 1)]

\* (.*?)``` from position p: the capture grows one token at a time until a
\* fence marker follows it
RECURSIVE LazyUntilFence(_, _, _)
LazyUntilFence(s, p, j) ==
    IF j > Len(s) THEN NoMatch
    ELSE IF s[j].t = "fence" THEN [matched |-> TRUE, group1 |-> SubSeq(s, p, j - 1)]
    ELSE LazyUntilFence(s, p, j + 1)

\* the pattern anchored at position i: the marker, then the optional tag
\* (taken when present, given back if the rest cannot match), then the
\* lazy capture and the closing marker
MatchAt(s, i) ==
    IF s[i].t # "fence" THEN NoMatch
    ELSE IF i + 1 <= Len(s) /\ s[i + 1].t = "tag"
         THEN LET withTag == LazyUntilFence(s, i + 2, i + 2)
              IN  IF withTag.matched THEN withTag
                  ELSE LazyUntilFence(s, i + 1, i + 1)
         ELSE LazyUntilFence(s, i + 1, i + 1)

\* search: the leftmost position at which the pattern matches
RECURSIVE SearchFrom(_, _)
SearchFrom(s, i) ==
    IF i > Len(s) THEN NoMatch
    ELSE LET m == MatchAt(s, i)
         IN  IF m.matched THEN m ELSE SearchFrom(s, i + 1)

re_search(s) == SearchFrom(s, 1)

\*  "```" in content
ContainsFence(s) == \E i \in 1..Len(s) : s[i].t = "fence"

(* ----------------------------- json.loads ------------------------------ *)

MemberKey(m) ==
    CASE m \in {"status:PASS", "status:FAIL", "status:WARN"} -> "status"
      [] m = "final_report:Clean" -> "final_report"
      [] m = "compliance_results:[issue]" -> "compliance_results"

MemberValue(m) ==
    CASE m = "status:PASS" -> "PASS"
      [] m = "status:FAIL" -> "FAIL"
      [] m = "status:WARN" -> "WARN"
      [] m = "final_report:Clean" -> "Clean"
      [] m = "compliance_results:[issue]" -> <<Issue>>

\* the dict of an object: a repeated key keeps its last value
ObjectValue(members) ==
    [k \in {MemberKey(members[i]) : i \in 1..Len(members)} |->
        LET last == CHOOSE i \in 1..Len(members) :
                        /\ MemberKey(members[i]) = k
                        /\ \A j \in (i + 1)..Len(members) : MemberKey(members[j]) # k
        IN  MemberValue(members[last])]

JsonError(msg) == [ok |-> FALSE, kind |-> "none", value |-> <<>>, msg |-> msg]

\* the decoder's own whitespace skipping, before and after the document
RECURSIVE SkipWs(_)
SkipWs(s) ==
    IF Len(s) = 0 THEN s
    ELSE IF Head(s).t = "ws" THEN SkipWs(Tail(s))
    ELSE IF s[Len(s)].t = "ws" THEN SkipWs(SubSeq(s, 1, Len(s) - 1))
    ELSE s

\* json.loads skips whitespace around the document, accepts exactly one
\* document and raises JSONDecodeError on anything else
json_loads(s) ==
    LET body == SkipWs(s)
    IN  IF Len(body) = 0 THEN JsonError("Expecting value: line 1 column 1 (char 0)")
        ELSE IF body[1].t # "doc" THEN JsonError("Expecting value: line 1 column 1 (char 0)")
        ELSE IF body[1].d.kind = "truncated" THEN JsonError("Unterminated string starting at")
        ELSE IF Len(body) > 1 THEN JsonError("Extra data")
        ELSE IF body[1].d.kind = "object"
             THEN [ok |-> TRUE, kind |-> "dict",
                   value |-> ObjectValue(body[1].d.members), msg |-> ""]
             ELSE [ok |-> TRUE, kind |-> "list", value |-> <<>>, msg |-> ""]

(* -------------------------- audit state -------------------------------- *)

\* video_url values, as token sequences;  "youtube.com" in video_url  is
\* a substring test
Urls == {<<"https://", "youtu.be", "/dT7S75eYhcQ">>,
         <<"https://www.", "youtube.com", "/watch?v=1">>,
         <<"https://", "vimeo.com", "/1">>}

InUrl(part, url) == \E i \in 1..Len(url) : url[i] = part

\* initial_inputs of run_cli_simulation, for any video_url, or none
InitialInputs ==
    {[video_url |-> u, video_id |-> "vid_1", compliance_results |-> <<>>,
      errors |-> <<>>] : u \in Urls}
      \cup {[video_id |-> "vid_1", compliance_results |-> <<>>, errors |-> <<>>]}

NoOutput == [k \in {} |-> ""]

\* the driver folds a node's output into the audit state: a key of the
\* output replaces the state's, and errors accumulates
Merge(s, o) ==
    [k \in DOMAIN s \cup DOMAIN o |->
        IF k \in DOMAIN o
        THEN IF k = "errors" /\ k \in DOMAIN s THEN s[k] \o o[k] ELSE o[k]
        ELSE s[k]]

\* extract_data's results: the insights of a video with or without speech,
\* or insights that carry no transcript at all
ExtractResults ==
    {[transcript |-> "", ocr_text |-> <<>>, video_metadata |-> [platform |-> "youtube"]],
     [ocr_text |-> <<>>, video_metadata |-> [platform |-> "youtube"]],
     [transcript |-> "buy now", ocr_text |-> <<"50% off">>,
      video_metadata |-> [platform |-> "youtube"]]}

(* ------------------------- index_video_node ---------------------------- *)

\* mutant: the failure output without the empty transcript and ocr_text
IndexerFailure_NoTranscript(msg) == [errors |-> <<msg>>, final_status |-> "FAIL"]

IndexerFailure(msg) ==
    [errors |-> <<msg>>, final_status |-> "FAIL", transcript |-> "", ocr_text |-> <<>>]

\* the except branch: the node returns the failure output, the driver
\* merges it and moves on to the auditor
IndexerFails(msg) ==
    /\ out' = IndexerFailure(msg)
    /\ state' = Merge(state, IndexerFailure(msg))
    /\ pc' = "auditor"

\* vi_service = VideoIndexerService()
ConstructService ==
    /\ pc = "construct"
    /\ calls' = Append(calls, "VideoIndexerService")
    /\ \/ /\ pc' = "download"
          /\ UNCHANGED <<state, out>>
       \/ IndexerFails("VideoIndexerService: missing credentials")
    /\ UNCHANGED <<scratch_exists, local_path, azure_video_id, response, content>>

\* 1. DOWNLOAD, behind the URL test
Download ==
    /\ pc = "download"
    /\ IF ~Has(state, "video_url")
       THEN /\ IndexerFails("argument of type 'NoneType' is not iterable")
            /\ UNCHANGED <<calls, scratch_exists, local_path>>
       ELSE IF InUrl("youtube.com", state["video_url"]) \/ InUrl("youtu.be", state["video_url"])
       THEN /\ calls' = Append(calls, "download_youtube_video")
            /\ \/ /\ local_path' = "temp_audit_video.mp4"
                  /\ scratch_exists' \in BOOLEAN
                  /\ pc' = "upload"
                  /\ UNCHANGED <<state, out>>
               \/ /\ IndexerFails("download failed")
                  /\ scratch_exists' \in {scratch_exists, TRUE}
                  /\ UNCHANGED local_path
       ELSE /\ IndexerFails("Please provide a valid YouTube URL for this test.")
            /\ UNCHANGED <<calls, scratch_exists, local_path>>
    /\ UNCHANGED <<azure_video_id, response, content>>

\* 2. UPLOAD
Upload ==
    /\ pc = "upload"
    /\ calls' = Append(calls, "upload_video")
    /\ \/ /\ azure_video_id' = "azure-1"
          /\ pc' = "cleanup"
          /\ UNCHANGED <<state, out>>
       \/ /\ IndexerFails("upload failed")
          /\ UNCHANGED azure_video_id
    /\ UNCHANGED <<scratch_exists, local_path, response, content>>

\* mutant: the scratch file is not removed
Cleanup_Skipped ==
    /\ pc = "cleanup"
    /\ pc' = "wait"
    /\ UNCHANGED <<state, out, calls, scratch_exists, local_path, azure_video_id,
                   response, content>>

\* 3. CLEANUP
Cleanup ==
    /\ pc = "cleanup"
    /\ scratch_exists' = IF scratch_exists THEN FALSE ELSE scratch_exists
    /\ pc' = "wait"
    /\ UNCHANGED <<state, out, calls, local_path, azure_video_id, response, content>>

\* 4. WAIT
Wait ==
    /\ pc = "wait"
    /\ calls' = Append(calls, "wait_for_processing")
    /\ \/ /\ pc' = "extract"
          /\ UNCHANGED <<state, out>>
       \/ IndexerFails("video processing failed")
    /\ UNCHANGED <<scratch_exists, local_path, azure_video_id, response, content>>

\* 5. EXTRACT, and the node's normal return
Extract ==
    /\ pc = "extract"
    /\ calls' = Append(calls, "extract_data")
    /\ \/ \E clean_data \in ExtractResults :
             /\ out' = clean_data
             /\ state' = Merge(state, clean_data)
             /\ pc' = "auditor"
       \/ IndexerFails("extract_data failed")
    /\ UNCHANGED <<scratch_exists, local_path, azure_video_id, response, content>>

(* ------------------------ audit_content_node --------------------------- *)

SkippedAudit ==
    [final_status |-> "FAIL",
     final_report |-> "Audit skipped because video processing failed (No Transcript)."]

\* mutants of the except branch: final_status forgotten; final_report set
AuditFailure_NoStatus(msg) == [errors |-> <<msg>>]

AuditFailure_WithReport(msg) ==
    [errors |-> <<msg>>, final_status |-> "FAIL", final_report |-> "Audit failed."]

AuditFailure(msg) == [errors |-> <<msg>>, final_status |-> "FAIL"]

\* the value of the local  content  when json.loads is reached: the first
\* group of the match when the response holds a fence marker, else the
\* response itself
ExtractFenced(resp) ==
    IF ContainsFence(resp) THEN re_search(resp).group1 ELSE resp

\* mutants of the return statement: the parsed object returned as it is;
\* PASS as the default status
AuditVerdict_Raw(audit_data) == audit_data

AuditVerdict_DefaultPass(audit_data) ==
    [compliance_results |-> Get(audit_data, "compliance_results", <<>>),
     final_status |-> Get(audit_data, "status", "PASS"),
     final_report |-> Get(audit_data, "final_report", "No report generated.")]

\* the return statement after a successful json.loads
AuditVerdict(audit_data) ==
    [compliance_results |-> Get(audit_data, "compliance_results", <<>>),
     final_status |-> Get(audit_data, "status", "FAIL"),
     final_report |-> Get(audit_data, "final_report", "No report generated.")]

\* the body of the try block after llm.invoke returned, with its except
\* branch: the node's output for a response
ParseResponse(resp) ==
    IF ContainsFence(resp) /\ ~re_search(resp).matched
    THEN AuditFailure("'NoneType' object has no attribute 'group'")
    ELSE LET audit_data == json_loads(strip(ExtractFenced(resp)))
         IN  IF ~audit_data.ok THEN AuditFailure(audit_data.msg)
             ELSE IF audit_data.kind # "dict"
                  THEN AuditFailure("'list' object has no attribute 'get'")
                  ELSE AuditVerdict(audit_data.value)

\* the node returns, the driver merges its output and reaches END
AuditorReturns(o) ==
    /\ out' = o
    /\ state' = Merge(state, o)
    /\ pc' = "end"

\* a fault leaves the node: app.invoke raises, run_cli_simulation logs
\* and re-raises
FaultEscapes ==
    /\ pc' = "raised"
    /\ UNCHANGED <<state, out>>

\* mutant: the transcript test left out
AuditorEntry_NoSkip ==
    /\ pc = "auditor"
    /\ pc' = "clients"
    /\ UNCHANGED <<state, out, calls, scratch_exists, local_path, azure_video_id,
                   response, content>>

\* transcript = state.get("transcript", ""), and the empty-transcript return
AuditorEntry ==
    /\ pc = "auditor"
    /\ IF Get(state, "transcript", "") = ""
       THEN AuditorReturns(SkippedAudit)
       ELSE /\ pc' = "clients"
            /\ UNCHANGED <<state, out>>
    /\ UNCHANGED <<calls, scratch_exists, local_path, azure_video_id, response, content>>

\* Initialize Clients
InitClients ==
    /\ pc = "clients"
    /\ calls' = Append(calls, "AzureSearch")
    /\ \/ /\ pc' = "retrieve"
          /\ UNCHANGED <<state, out>>
       \/ FaultEscapes
    /\ UNCHANGED <<scratch_exists, local_path, azure_video_id, response, content>>

\* RAG Retrieval
Retrieve ==
    /\ pc = "retrieve"
    /\ calls' = Append(calls, "similarity_search")
    /\ \/ /\ pc' = "invoke"
          /\ UNCHANGED <<state, out>>
       \/ FaultEscapes
    /\ UNCHANGED <<scratch_exists, local_path, azure_video_id, response, content>>

\* response = llm.invoke([...])
Invoke ==
    /\ pc = "invoke"
    /\ calls' = Append(calls, "llm.invoke")
    /\ \/ /\ \E l \in Layouts, d \in Docs : response' = Fill(l, d)
          /\ pc' = "parse"
          /\ UNCHANGED <<state, out>>
       \/ /\ AuditorReturns(AuditFailure("llm.invoke: request failed"))
          /\ UNCHANGED response
    /\ UNCHANGED <<scratch_exists, local_path, azure_video_id, content>>

\* fence cleaning, json.loads and the return (or the except branch)
Parse ==
    /\ pc = "parse"
    /\ content' = IF ContainsFence(response) /\ ~re_search(response).matched
                  THEN response
                  ELSE ExtractFenced(response)
    /\ AuditorReturns(ParseResponse(response))
    /\ UNCHANGED <<calls, scratch_exists, local_path, azure_video_id, response>>

(* --------------------------- specification ----------------------------- *)

Init ==
    /\ state \in InitialInputs
    /\ pc = "construct"
    /\ out = NoOutput
    /\ calls = <<>>
    /\ scratch_exists \in BOOLEAN
    /\ local_path = ""
    /\ azure_video_id = ""
    /\ response = <<>>
    /\ content = <<>>

Next ==
    \/ ConstructService
    \/ Download
    \/ Upload
    \/ Cleanup
    \/ Wait
    \/ Extract
    \/ AuditorEntry
    \/ InitClients
    \/ Retrieve
    \/ Invoke
    \/ Parse

Spec == Init /\ [][Next]_vars

(* ------------------------- shared vocabulary --------------------------- *)

Called(c) == \E i \in 1..Len(calls) : calls[i] = c

IndexerPcs == {"construct", "download", "upload", "cleanup", "wait", "extract"}

ErrorsOf(s) == Get(s, "errors", <<>>)

(* ------------------------------- C1 ------------------------------------ *)

\* C1: whatever external step fails, the run does not halt with a thrown
\* fault: it reaches END, and a run that reached END after a failed call
\* carries a message in errors and final_status FAIL.
C1_FailureIsRecordedNeverThrown ==
    /\ pc # "raised"
    /\ (pc = "end" /\ Has(out, "errors")
          => Len(ErrorsOf(state)) > 0 /\ Get(state, "final_status", "") = "FAIL")

(* ------------------------------- C2 ------------------------------------ *)

\* the status field of the parsed response, "" when there is none
ReportedStatus ==
    IF Called("llm.invoke") /\ pc = "end" /\ json_loads(content).ok
    THEN Get(json_loads(content).value, "status", "")
    ELSE ""

\* C2: in every reachable state, non-empty errors implies final_status
\* FAIL, and a parsed response reporting FAIL implies final_status FAIL.
C2_ErrorsOrReportedFailImplyFail ==
    /\ (Len(ErrorsOf(state)) > 0 => Get(state, "final_status", "") = "FAIL")
    /\ (ReportedStatus = "FAIL" => Get(state, "final_status", "") = "FAIL")

C2_Witness ==
    /\ pc = "end"
    /\ Len(response) > 0
    /\ Len(ErrorsOf(state)) > 0
    /\ state["final_status"] = "FAIL"

(* ------------------------------- C3 ------------------------------------ *)

\* C3: with an empty or absent transcript the Judgment stage calls neither
\* the retriever nor the model and returns exactly final_status FAIL and
\* the fixed "Audit skipped" report; the model is invoked only in runs
\* whose transcript is non-empty.
C3_EmptyTranscriptSkipsModel ==
    Get(state, "transcript", "") = "" =>
        /\ ~Called("llm.invoke") /\ ~Called("similarity_search") /\ ~Called("AzureSearch")
        /\ pc \notin {"clients", "retrieve", "invoke", "parse", "raised"}
        /\ pc = "end" =>
              /\ DOMAIN out = {"final_status", "final_report"}
              /\ out["final_status"] = "FAIL"
              /\ out["final_report"] =
                    "Audit skipped because video processing failed (No Transcript)."
              /\ state["final_status"] = "FAIL"
              /\ state["final_report"] = out["final_report"]

\* the stage has returned after a failed Extraction
C3_Witness ==
    /\ pc = "end"
    /\ Has(state, "transcript") /\ state["transcript"] = ""
    /\ Len(ErrorsOf(state)) > 0
    /\ Has(out, "final_report")

(* ------------------------------- C4 ------------------------------------ *)

UrlRecognized ==
    /\ Has(state, "video_url")
    /\ \E i \in 1..Len(state["video_url"]) :
          state["video_url"][i] \in {"youtube.com", "youtu.be"}

\* the Extraction stage has returned, and not from its last line
ExtractionFailed ==
    /\ pc = "auditor"
    /\ calls[Len(calls)] # "extract_data" \/ ~Has(out, "video_metadata")

\* C4: a failed Extraction returns errors = [one message], final_status
\* FAIL, transcript "" and ocr_text [], the run moves on to the Judgment
\* stage (no fault leaves the Extraction stage), and a video_url that is
\* not recognized is neither downloaded nor uploaded.
C4_ExtractionFailureOutput ==
    /\ ExtractionFailed =>
          /\ DOMAIN out = {"errors", "final_status", "transcript", "ocr_text"}
          /\ Len(out["errors"]) = 1
          /\ out["final_status"] = "FAIL"
          /\ out["transcript"] = "" /\ Len(out["ocr_text"]) = 0
          /\ state["errors"] = out["errors"]
          /\ state["final_status"] = "FAIL"
          /\ state["transcript"] = "" /\ Len(state["ocr_text"]) = 0
    /\ pc = "raised" => Called("extract_data")
    /\ ~UrlRecognized =>
          /\ ~Called("download_youtube_video") /\ ~Called("upload_video")
          /\ pc \notin IndexerPcs => Len(ErrorsOf(state)) = 1

C4_Witness ==
    /\ ExtractionFailed
    /\ ~UrlRecognized
    /\ Has(state, "video_url")
    /\ state["errors"] = <<"Please provide a valid YouTube URL for this test.">>

(* ------------------------------- C5 ------------------------------------ *)

WellFormedTriple(o) ==
    DOMAIN o = {"compliance_results", "final_status", "final_report"}

OneErrorAndFail(o) ==
    /\ DOMAIN o = {"errors", "final_status"}
    /\ Len(o["errors"]) = 1
    /\ o["final_status"] = "FAIL"

\* C5: for every response text the parsing step ends the stage normally
\* with one of two outputs: the triple {compliance_results, final_status,
\* final_report}, or one new errors entry and final_status FAIL.
C5_ParseYieldsTripleOrOneError ==
    [][pc = "parse" =>
          /\ pc' = "end"
          /\ \/ /\ WellFormedTriple(out')
                /\ ErrorsOf(state') = ErrorsOf(state)
             \/ /\ OneErrorAndFail(out')
                /\ Len(ErrorsOf(state')) = Len(ErrorsOf(state)) + 1
                /\ state'["final_status"] = "FAIL"]_vars

\* a single unclosed fence marker
C5_Witness ==
    /\ pc = "end"
    /\ response = <<Fence>>
    /\ OneErrorAndFail(out)
    /\ state["errors"] = <<"'NoneType' object has no attribute 'group'">>

(* ------------------------------- C6 ------------------------------------ *)

\* C6: final_status is unset or one of PASS and FAIL in every reachable
\* state, for every model response.
C6_FinalStatusIsEnum ==
    Has(state, "final_status") => state["final_status"] \in {"PASS", "FAIL"}

(* ------------------------------- C7 ------------------------------------ *)

\* the text between the first and the last token that is not whitespace
Trimmed(s) ==
    LET solid == {i \in 1..Len(s) : s[i].t # "ws"}
    IN  IF solid = {} THEN <<>>
        ELSE SubSeq(s, CHOOSE i \in solid : \A j \in solid : i <= j,
                       CHOOSE i \in solid : \A j \in solid : j <= i)

\* the response was parsed, and as a JSON object
ParsedAsObject ==
    /\ pc = "end"
    /\ Len(response) > 0
    /\ Len(Trimmed(content)) = 1
    /\ Trimmed(content)[1].t = "doc"
    /\ Trimmed(content)[1].d.kind = "object"

ParsedMembers == Trimmed(content)[1].d.members

FieldPresent(key) == \E i \in 1..Len(ParsedMembers) : MemberKey(ParsedMembers[i]) = key

\* the field's value in the response (of its last occurrence), else the default
FieldOr(key, default) ==
    IF FieldPresent(key)
    THEN LET at == {i \in 1..Len(ParsedMembers) : MemberKey(ParsedMembers[i]) = key}
         IN  MemberValue(ParsedMembers[CHOOSE i \in at : \A j \in at : j <= i])
    ELSE default

\* C7: a response parsed as a JSON object yields compliance_results,
\* final_status and final_report from its fields compliance_results, status
\* and final_report, with the defaults [], FAIL and "No report generated."
\* for absent fields, and adds nothing to errors; without a status field
\* the result is never PASS.
C7_VerdictFieldsAndDefaults ==
    ParsedAsObject =>
        /\ WellFormedTriple(out)
        /\ out["compliance_results"] = FieldOr("compliance_results", <<>>)
        /\ out["final_status"] = FieldOr("status", "FAIL")
        /\ out["final_report"] = FieldOr("final_report", "No report generated.")
        /\ state["final_status"] = out["final_status"]
        /\ Len(ErrorsOf(state)) = 0
        /\ ~FieldPresent("status") => state["final_status"] # "PASS"

\* the bare three-member verdict of the specification's example
C7_Witness ==
    /\ ParsedAsObject
    /\ response = <<DocTok([kind |-> "object",
                            members |-> <<"status:FAIL", "compliance_results:[issue]",
                                          "final_report:Clean">>])>>
    /\ Len(out["compliance_results"]) = 1
    /\ out["compliance_results"][1].severity = "CRITICAL"
    /\ state["final_status"] = "FAIL"

(* ------------------------------- C8 ------------------------------------ *)

FencePositions(s) == {i \in 1..Len(s) : s[i].t = "fence"}

\* the text between the first fence marker (and the json tag right after
\* it) and the next fence marker
FencedBody(s) ==
    LET first == CHOOSE i \in FencePositions(s) : \A j \in FencePositions(s) : i <= j
        next  == CHOOSE i \in FencePositions(s) \ {first} :
                     \A j \in FencePositions(s) \ {first} : i <= j
        from  == IF s[first + 1].t = "tag" THEN first + 2 ELSE first + 1
    IN  SubSeq(s, from, next - 1)

\* C8: of a response with a fenced block, what is parsed is the text
\* between the first marker (and its json tag) and the next marker,
\* trimmed, whatever surrounds the block; of a response without a marker,
\* the whole trimmed response.  The output is that of the bare text.
C8_FenceExtraction ==
    pc = "end" /\ Len(response) > 0 =>
        /\ Cardinality(FencePositions(response)) >= 2 =>
              /\ content = FencedBody(response)
              /\ out = ParseResponse(Trimmed(FencedBody(response)))
        /\ FencePositions(response) = {} =>
              /\ content = response
              /\ out = ParseResponse(Trimmed(response))

\* a verdict in a fence with prose before it
C8_Witness ==
    /\ pc = "end"
    /\ response = <<Txt, Fence, DocTok([kind |-> "object",
                                        members |-> <<"status:PASS", "final_report:Clean">>]),
                    Fence>>
    /\ WellFormedTriple(out)
    /\ out["final_status"] = "PASS"
    /\ out["final_report"] = "Clean"

(* ------------------------------- C9 ------------------------------------ *)

JudgmentFailed == pc = "end" /\ Has(out, "errors") /\ Get(state, "transcript", "") # ""

\* a failing step of the Judgment stage leaves every field but errors
\* and final_status as it was
FailureKeepsOtherFields ==
    (pc \in {"invoke", "parse"} /\ pc' = "end" /\ Has(out', "errors")) =>
        (/\ DOMAIN out' = {"errors", "final_status"}
         /\ \A k \in (DOMAIN state \cup DOMAIN state') \ {"errors", "final_status"} :
               (k \in DOMAIN state /\ k \in DOMAIN state' /\ state'[k] = state[k])
         /\ ~Has(state', "final_report")
         /\ Len(state'["compliance_results"]) = 0)

\* C9: a Judgment stage that fails after a non-empty transcript changes
\* only errors and final_status: every other field of the state, set or
\* unset, is as it was when the stage failed.
C9_FailureTouchesOnlyErrorsAndStatus == [][FailureKeepsOtherFields]_vars

C9_Witness ==
    /\ JudgmentFailed
    /\ out["errors"] = <<"llm.invoke: request failed">>
    /\ ~Has(state, "final_report")
    /\ Len(state["compliance_results"]) = 0

(* ------------------------------- C10 ----------------------------------- *)

ExtractionOrder ==
    <<"VideoIndexerService", "download_youtube_video", "upload_video",
      "wait_for_processing", "extract_data">>

UploadSucceeded == azure_video_id # ""

====
